---- MODULE Spec2Model ----
(***************************************************************************)
(* Harmony: the operation router (services/index: forOperation and its     *)
(* three filtering stages) and the backend callback handler               *)
(* (service-response.ts: responseHandler, updateJobFields).                *)
(***************************************************************************)
EXTENDS Integers, Sequences, FiniteSets, TLC

VARIABLES
    configs,       \* the registry handed to forOperation (serviceConfigs)
    operation,     \* the DataOperation of the last call, as the call left it
    context,       \* the context of the last call
    entryFormat,   \* operation.outputFormat when the last call was entered
    result,        \* what the last forOperation call gave its caller
    noOpMessage,   \* noOpService.message, a field of the module-level object
    phase,         \* "idle", or "called" once forOperation has returned
    held,          \* the service an earlier caller still holds, and the
                   \* message its descriptor carried when it was returned
    store,         \* the persisted jobs, by request id (committed rows)
    served,        \* the number of callbacks received so far
    handler        \* per responseHandler invocation: its position and locals

routerVars ==
    <<configs, operation, context, entryFormat, result, noOpMessage, phase, held>>

callbackVars == <<store, served, handler>>

vars == <<routerVars, callbackVars>>

(***************************************************************************)
(* Bounds of the router's inputs.                                          *)
(***************************************************************************)
MaxConfigs == 2

\* JavaScript's undefined, for a string-valued field that is not set.
Undefined == "undefined"

Truthy(s) == s # Undefined /\ s # ""

SeqsUpTo(S, n) == UNION {[1..k -> S] : k \in 0..n}

(***************************************************************************)
(* Mime negotiation (util/content-negotiation, consumed as a pure          *)
(* function): a concrete type is accepted by itself, by type/* and by */*. *)
(***************************************************************************)
WildcardOf(mimeType) ==
    CASE mimeType = "image/png" -> "image/*"
      [] mimeType = "application/x-netcdf4" -> "application/*"
      [] mimeType = "application/json" -> "application/*"
      [] OTHER -> mimeType

isMimeTypeAccepted(mimeType, pattern) ==
    \/ pattern = "*/*"
    \/ pattern = mimeType
    \/ pattern = WildcardOf(mimeType)

(***************************************************************************)
(* Input domains.                                                          *)
(***************************************************************************)
Collections == {"C1", "C2"}

VariableLists == {<<>>, <<"v1">>}

Sources == [collection : Collections, variables : VariableLists]

OutputFormatLists == {<<"image/png">>, <<"application/x-netcdf4", "image/png">>}

TypeNames == {"http", "lambda"}

ServiceConfigs ==
    [type : [name : TypeNames],
     collections : {{"C1"}, {"C1", "C2"}},
     capabilities : [subsetting : [variable : BOOLEAN],
                     output_formats : OutputFormatLists]]

RequestedPatterns == {"image/png", "application/x-netcdf4", "*/*"}

EntryFormats == {Undefined, "image/png", "application/x-netcdf4"}

\* A context is absent (undefined: it has no requestedMimeTypes to read) or
\* carries the ordered accept patterns.
NoContext == [defined |-> FALSE]

RequestedLists ==
    {<<>>} \cup {<<p>> : p \in RequestedPatterns}
           \cup {pq \in RequestedPatterns \X RequestedPatterns : pq[1] # pq[2]}

Contexts ==
    {NoContext} \cup [defined : {TRUE}, requestedMimeTypes : RequestedLists]

\* An operation has one or two sources (its sources are never empty).
SourceLists ==
    {<<s>> : s \in Sources} \cup {st \in Sources \X Sources : st[1] # st[2]}

Operations == [sources : SourceLists, outputFormat : EntryFormats]

(***************************************************************************)
(* Throwing and returning, for the functions that raise.                   *)
(***************************************************************************)
NoMessage == [text |-> Undefined, formats |-> <<>>]

Message(text, formats) == [text |-> text, formats |-> formats]

Return(value) == [threw |-> FALSE, value |-> value, message |-> NoMessage]

Throw(message) == [threw |-> TRUE, value |-> <<>>, message |-> message]

CollectionText == "no services are configured for the collection"

VariableText == "none of the services configured for the collection support variable subsetting"

ReformattingText == "none of the services configured for the collection support reformatting to any of the requested formats "

CombinationText == "none of the services support the combination of both variable subsetting and any of the requested formats "

\* supportedFormats.find((f) => isMimeTypeAccepted(f, format)): the first
\* supported format the pattern accepts, or undefined.
findAccepted(supportedFormats, format) ==
    LET Accepted(i) == isMimeTypeAccepted(supportedFormats[i], format)
    IN  IF \E i \in DOMAIN supportedFormats : Accepted(i)
        THEN supportedFormats[CHOOSE i \in DOMAIN supportedFormats :
                                  Accepted(i) /\ \A j \in 1..(i - 1) : ~Accepted(j)]
        ELSE Undefined

(***************************************************************************)
(* The router's functions.                                                 *)
(***************************************************************************)
serviceTypesToServiceClasses ==
    [docker |-> "LocalDockerService", http |-> "HttpService", noOp |-> "NoOpService"]

noOpService ==
    [type |-> [name |-> "noOp"],
     collections |-> {},
     capabilities |-> [subsetting |-> [variable |-> FALSE],
                       output_formats |-> <<"application/json">>]]

buildService(serviceConfig, op) ==
    IF serviceConfig.type.name \in DOMAIN serviceTypesToServiceClasses
    THEN [outcome |-> "service",
          class |-> serviceTypesToServiceClasses[serviceConfig.type.name],
          config |-> serviceConfig]
    ELSE [outcome |-> "NotFoundError", class |-> Undefined, config |-> serviceConfig]

\* Mutant: one covered source is enough (some instead of every).
isCollectionMatch_some(op, serviceConfig) ==
    \E i \in DOMAIN op.sources : op.sources[i].collection \in serviceConfig.collections

isCollectionMatch(op, serviceConfig) ==
    \A i \in DOMAIN op.sources : op.sources[i].collection \in serviceConfig.collections

selectServicesForFormat(format, cfgs) ==
    LET Supports(config) ==
            LET supportedFormats == config.capabilities.output_formats
            IN  Truthy(findAccepted(supportedFormats, format))
    IN  SelectSeq(cfgs, Supports)

\* The loop of selectFormat from position i of requestedMimeTypes on, entered
\* with no output format found yet.
RECURSIVE selectFormatFrom(_, _, _)
selectFormatFrom(i, mimeTypes, cfgs) ==
    IF i > Len(mimeTypes) THEN Undefined
    ELSE LET mimeType == mimeTypes[i]
             services == selectServicesForFormat(mimeType, cfgs)
             outputFormat ==
                 IF Len(services) > 0
                 THEN findAccepted(services[1].capabilities.output_formats, mimeType)
                 ELSE Undefined
         IN  IF Truthy(outputFormat) THEN outputFormat
             ELSE selectFormatFrom(i + 1, mimeTypes, cfgs)

\* Mutant: the requested patterns are scanned even when outputFormat is set,
\* and what the scan finds replaces it.
selectFormat_requestedFirst(op, ctx, cfgs) ==
    IF ctx.defined /\ Len(ctx.requestedMimeTypes) > 0
    THEN LET outputFormat == selectFormatFrom(1, ctx.requestedMimeTypes, cfgs)
         IN  IF Truthy(outputFormat) THEN outputFormat ELSE op.outputFormat
    ELSE op.outputFormat

\* Mutant: only the first requested pattern is tried.
selectFormat_firstOnly(op, ctx, cfgs) ==
    IF ~Truthy(op.outputFormat) /\ Len(ctx.requestedMimeTypes) > 0
    THEN selectFormatFrom(1, <<ctx.requestedMimeTypes[1]>>, cfgs)
    ELSE op.outputFormat

selectFormat(op, ctx, cfgs) ==
    IF ~Truthy(op.outputFormat) /\ Len(ctx.requestedMimeTypes) > 0
    THEN selectFormatFrom(1, ctx.requestedMimeTypes, cfgs)
    ELSE op.outputFormat

\* Mutant: subsetting is required only when every source names variables.
requiresVariableSubsetting_every(op) ==
    \A i \in DOMAIN op.sources : Len(op.sources[i].variables) > 0

requiresVariableSubsetting(op) ==
    LET varSources == SelectSeq(op.sources, LAMBDA s : Len(s.variables) > 0)
    IN  Len(varSources) > 0

supportsVariableSubsetting(cfgs) == SelectSeq(cfgs, LAMBDA config : config.capabilities.subsetting.variable)

filterCollectionMatches(op, ctx, cfgs) ==
    LET matches == SelectSeq(cfgs, LAMBDA config : isCollectionMatch(op, config))
    IN  IF Len(matches) = 0 THEN Throw(Message(CollectionText, <<>>))
        ELSE Return(matches)

filterVariableSubsettingMatches(op, ctx, cfgs) ==
    LET variableSubsettingNeeded == requiresVariableSubsetting(op)
        matches == IF variableSubsettingNeeded THEN supportsVariableSubsetting(cfgs)
                   ELSE cfgs
    IN  IF Len(matches) = 0 THEN Throw(Message(VariableText, <<>>))
        ELSE Return(matches)

\* `${operation.outputFormat || context.requestedMimeTypes}`
RequestedFormats(outputFormat, ctx) ==
    IF Truthy(outputFormat) THEN <<outputFormat>> ELSE ctx.requestedMimeTypes

\* Mutant: the format is resolved but the services are not filtered by it.
filterOutputFormatMatches_unfiltered(op, ctx, cfgs) ==
    LET requested == \/ Truthy(op.outputFormat)
                     \/ (ctx.defined /\ Len(ctx.requestedMimeTypes) > 0)
        outputFormat == IF requested THEN selectFormat(op, ctx, cfgs) ELSE Undefined
        written == IF requested /\ Truthy(outputFormat) THEN outputFormat
                   ELSE op.outputFormat
        services == IF requested /\ ~Truthy(outputFormat) THEN <<>> ELSE cfgs
    IN  IF Len(services) = 0
        THEN [threw |-> TRUE, value |-> <<>>, outputFormat |-> written,
              message |-> Message(ReformattingText, RequestedFormats(written, ctx))]
        ELSE [threw |-> FALSE, value |-> services, outputFormat |-> written,
              message |-> NoMessage]

\* Besides returning the matches or throwing, the function writes
\* operation.outputFormat: outputFormat is the field as the function leaves it.
filterOutputFormatMatches(op, ctx, cfgs) ==
    LET requested == \/ Truthy(op.outputFormat)
                     \/ (ctx.defined /\ Len(ctx.requestedMimeTypes) > 0)
        outputFormat == IF requested THEN selectFormat(op, ctx, cfgs) ELSE Undefined
        written == IF requested /\ Truthy(outputFormat) THEN outputFormat
                   ELSE op.outputFormat
        services == IF requested
                    THEN IF Truthy(outputFormat)
                         THEN selectServicesForFormat(outputFormat, cfgs)
                         ELSE <<>>
                    ELSE cfgs
    IN  IF Len(services) = 0
        THEN [threw |-> TRUE, value |-> <<>>, outputFormat |-> written,
              message |-> Message(ReformattingText, RequestedFormats(written, ctx))]
        ELSE [threw |-> FALSE, value |-> services, outputFormat |-> written,
              message |-> NoMessage]

\* Mutant: the diagnosis looks for the format among the descriptors that
\* support variable subsetting, not among all collection matches.
unsupportedCombinationMessage_subset(op, ctx, cfgs, originalReason) ==
    IF originalReason.text = ReformattingText /\ requiresVariableSubsetting(op)
    THEN LET collectionMatches == filterCollectionMatches(op, ctx, cfgs)
         IN  IF collectionMatches.threw THEN collectionMatches
             ELSE LET matches == supportsVariableSubsetting(collectionMatches.value)
                      outputFormat == selectFormat(op, ctx, matches)
                  IN  IF /\ Truthy(outputFormat)
                         /\ Len(selectServicesForFormat(outputFormat, matches)) > 0
                      THEN Return(Message(CombinationText,
                                          RequestedFormats(op.outputFormat, ctx)))
                      ELSE Return(originalReason)
    ELSE Return(originalReason)

\* Mutant: the diagnosis re-runs the collection stage whatever the original
\* reason was.
unsupportedCombinationMessage_unguarded(op, ctx, cfgs, originalReason) ==
    IF requiresVariableSubsetting(op)
    THEN LET collectionMatches == filterCollectionMatches(op, ctx, cfgs)
         IN  IF collectionMatches.threw THEN collectionMatches
             ELSE LET matches == collectionMatches.value
                      outputFormat == selectFormat(op, ctx, matches)
                  IN  IF /\ originalReason.text = ReformattingText
                         /\ Truthy(outputFormat)
                         /\ Len(selectServicesForFormat(outputFormat, matches)) > 0
                      THEN Return(Message(CombinationText,
                                          RequestedFormats(op.outputFormat, ctx)))
                      ELSE Return(originalReason)
    ELSE Return(originalReason)

unsupportedCombinationMessage(op, ctx, cfgs, originalReason) ==
    IF originalReason.text = ReformattingText /\ requiresVariableSubsetting(op)
    THEN LET collectionMatches == filterCollectionMatches(op, ctx, cfgs)
         IN  IF collectionMatches.threw THEN collectionMatches
             ELSE LET matches == collectionMatches.value
                      outputFormat == selectFormat(op, ctx, matches)
                  IN  IF /\ Truthy(outputFormat)
                         /\ Len(selectServicesForFormat(outputFormat, matches)) > 0
                      THEN Return(Message(CombinationText,
                                          RequestedFormats(op.outputFormat, ctx)))
                      ELSE Return(originalReason)
    ELSE Return(originalReason)

\* The catch block of forOperation and the buildService call after it: op is
\* the operation as the try block left it, message0 the message the no-op
\* descriptor held on entry.
Fallback(op, ctx, cfgs, reason, message0) ==
    LET message == unsupportedCombinationMessage(op, ctx, cfgs, reason)
    IN  IF message.threw
        THEN [result |-> [outcome |-> "UnsupportedOperation", class |-> Undefined,
                          config |-> noOpService],
              outputFormat |-> op.outputFormat,
              noOpMessage |-> message0]
        ELSE [result |-> buildService(noOpService, op),
              outputFormat |-> op.outputFormat,
              noOpMessage |-> message.value]

forOperation(op, ctx, cfgs, message0) ==
    LET collectionMatches == filterCollectionMatches(op, ctx, cfgs)
    IN  IF collectionMatches.threw
        THEN Fallback(op, ctx, cfgs, collectionMatches.message, message0)
        ELSE
    LET varSubsetMatches == filterVariableSubsettingMatches(op, ctx, collectionMatches.value)
    IN  IF varSubsetMatches.threw
        THEN Fallback(op, ctx, cfgs, varSubsetMatches.message, message0)
        ELSE
    LET formatMatches == filterOutputFormatMatches(op, ctx, varSubsetMatches.value)
        written == [op EXCEPT !.outputFormat = formatMatches.outputFormat]
    IN  IF formatMatches.threw
        THEN Fallback(written, ctx, cfgs, formatMatches.message, message0)
        ELSE [result |-> buildService(formatMatches.value[1], written),
              outputFormat |-> written.outputFormat,
              noOpMessage |-> message0]

(***************************************************************************)
(* The callback handler (service-response.ts).                             *)
(***************************************************************************)
MaxCallbacks == 1

Handlers == {"h1", "h2"}

\* A JavaScript number that may be NaN.
Num(v) == [nan |-> FALSE, value |-> v]

NaN == [nan |-> TRUE, value |-> 0]

\* parseFloat of one comma-separated component: the longest numeric prefix.
parseFloat(s) ==
    CASE s = "10" -> Num(10)
      [] s = "20" -> Num(20)
      [] s = "30" -> Num(30)
      [] s = "40" -> Num(40)
      [] s = "50" -> Num(50)
      [] s = "7x" -> Num(7)
      [] OTHER -> NaN

\* +progress: the whole string as a number (blank is 0), NaN otherwise.
\* Only whether it is NaN is used.
NumberIsNaN(s) ==
    CASE s \in {"0", "50", "100", "150", "-5", "1.5", " "} -> FALSE
      [] OTHER -> TRUE

\* parseInt(progress, 10): the leading integer, NaN when there is none.
parseInt(s) ==
    CASE s = "0" -> Num(0)
      [] s = "50" -> Num(50)
      [] s = "100" -> Num(100)
      [] s = "150" -> Num(150)
      [] s = "-5" -> Num(-5)
      [] s = "1.5" -> Num(1)
      [] s = "50px" -> Num(50)
      [] OTHER -> NaN

\* Date.parse, in seconds since the epoch.
DateParse(t) ==
    CASE t = "2020-01-01T00:00:00Z" -> Num(1577836800)
      [] t = "2020-01-02T00:00:00Z" -> Num(1577923200)
      [] OTHER -> NaN

\* new Date(t).toISOString()
toISOString(t) ==
    CASE t = 1577836800 -> "2020-01-01T00:00:00.000Z"
      [] t = 1577923200 -> "2020-01-02T00:00:00.000Z"
      [] OTHER -> Undefined

\* A comma-separated string is held as the components split(',') gives; the
\* empty sequence is an absent (or empty, falsy) string.
Absent == <<>>

JobStatuses == {"accepted", "running", "successful", "failed", "canceled", "paused"}

TerminalStatuses == {"successful", "failed", "canceled"}

Link(href, type, rel, title, bbox, temporal) ==
    [href |-> href, type |-> type, rel |-> rel, title |-> title,
     bbox |-> bbox, temporal |-> temporal]

StagingLink(location) == Link(location, Undefined, "s3-access", Undefined, Absent, Absent)

NewJob(requestId, isAsync) ==
    [requestId |-> requestId, isAsync |-> isAsync, status |-> "running",
     progress |-> Num(0), message |-> Undefined,
     links |-> <<StagingLink("s3://staging/" \o requestId \o "/")>>]

NoJob ==
    [requestId |-> Undefined, isAsync |-> TRUE, status |-> Undefined,
     progress |-> Num(0), message |-> Undefined, links |-> <<>>]

(***************************************************************************)
(* The Job model (models/job), as section 4.4 of the specification        *)
(* describes its transitions.                                              *)
(***************************************************************************)
addLink(job, link) == [job EXCEPT !.links = Append(@, link)]

fail(job, message) == [job EXCEPT !.status = "failed", !.message = message]

\* updateStatus validates the status against the enum.
updateStatusThrows(job, status) == status \notin JobStatuses

updateStatus(job, status) == [job EXCEPT !.status = status]

succeed(job) == [job EXCEPT !.status = "successful"]

isComplete(job) == job.status \in TerminalStatuses

getRelatedLinks(job, rel) == SelectSeq(job.links, LAMBDA link : link.rel = rel)

(***************************************************************************)
(* Errors: an error has a class, an optional status code (0: none) and a   *)
(* message.  RequestValidationError and ServerError (util/errors) carry    *)
(* the codes 400 and 500.                                                  *)
(***************************************************************************)
NoError == [class |-> Undefined, code |-> 0, message |-> Undefined]

TypeError(message) == [class |-> "TypeError", code |-> 0, message |-> message]

PlainError(message) == [class |-> "Error", code |-> 0, message |-> message]

RequestValidationError(message) ==
    [class |-> "RequestValidationError", code |-> 400, message |-> message]

ServerError(message) == [class |-> "ServerError", code |-> 500, message |-> message]

BboxMessage == "Unrecognized bounding box format.  Must be 4 comma-separated floats as West,South,East,North"

TemporalMessage == "Unrecognized temporal format.  Must be 2 RFC-3339 dates with optional fractional seconds as Start,End"

ProgressMessage == "Job record is invalid: [\"Job progress must be between 0 and 100\"]"

StatusMessage == "Job record is invalid: [\"Job status is invalid\"]"

FilenameMessage == "Services providing output via POST body must send a filename via a \"Content-Disposition\" header or \"item[title]\" query parameter"

\* The text of the TypeError raised by reading .href of undefined is the
\* JavaScript engine's: Node 14 and earlier word it one way, Node 16 and
\* later the other.
StagingMessages ==
    {"Cannot read property 'href' of undefined",
     "Cannot read properties of undefined (reading 'href')"}

(***************************************************************************)
(* Callback requests.                                                      *)
(***************************************************************************)
NoItem == [absent |-> TRUE]

Item(href, type, rel, title, temporal, bbox) ==
    [href |-> href, type |-> type, rel |-> rel, title |-> title,
     temporal |-> temporal, bbox |-> bbox]

Items ==
    { NoItem,
      Item("http://data/1", "image/png", Undefined, "t1",
           <<"2020-01-01T00:00:00Z", "2020-01-02T00:00:00Z">>, <<"10", "20", "30", "40">>),
      Item("http://data/2", Undefined, "data", Undefined, Absent, <<"10", "20", "30">>),
      Item(Undefined, Undefined, Undefined, "out.nc", Absent, Absent) }

Queries ==
    [item : Items,
     error : {Undefined, "boom"},
     redirect : {Undefined, "http://redirect/1"},
     status : {Undefined, "running", "bogus"},
     progress : {Undefined, "50", "abc"}]

FormEncoded == "application/x-www-form-urlencoded"

NoBodyHeaders ==
    [contentLength : {Undefined, "0"}, contentType : {Undefined},
     contentDisposition : {Undefined}]

BodyHeaders ==
    [contentLength : {"5"}, contentType : {FormEncoded, "application/x-netcdf4"},
     contentDisposition : {Undefined, "attachment; filename=\"f.nc\""}]

\* The headers that are read only for a posted body are left out of the
\* requests that carry none.
Headers == NoBodyHeaders \cup BodyHeaders

StoredRequestIds == {"r1", "r2"}

EmptyQuery ==
    [item |-> NoItem, error |-> Undefined, redirect |-> Undefined,
     status |-> Undefined, progress |-> Undefined]

FullQuery ==
    [item |-> Item("http://data/1", "image/png", Undefined, "t1",
                   <<"2020-01-01T00:00:00Z", "2020-01-02T00:00:00Z">>,
                   <<"10", "20", "30", "40">>),
     error |-> Undefined, redirect |-> "http://redirect/1",
     status |-> "running", progress |-> "50"]

\* Items and progress strings at the edges of what updateJobFields parses:
\* a one-date temporal, an unparsable date, a bbox component with trailing
\* text, one that is no number at all, a bbox of five components; progress
\* above 100, negative, fractional, blank, and a number with trailing text.
EdgeItems ==
    { Item("http://data/3", Undefined, Undefined, Undefined,
           <<"2020-01-01T00:00:00Z">>, Absent),
      Item("http://data/4", Undefined, Undefined, Undefined,
           <<"2020-01-01T00:00:00Z", "yesterday">>, Absent),
      Item("http://data/5", Undefined, Undefined, Undefined, Absent,
           <<"10", "20", "30", "7x">>),
      Item("http://data/6", Undefined, Undefined, Undefined, Absent,
           <<"10", "x", "30", "40">>),
      Item("http://data/7", Undefined, Undefined, Undefined, Absent,
           <<"10", "20", "30", "40", "50">>) }

EdgeProgress == {"150", "-5", "1.5", " ", "50px"}

EdgeQueries ==
    [item : EdgeItems, error : {Undefined}, redirect : {Undefined},
     status : {Undefined}, progress : {Undefined}]
    \cup [item : {NoItem}, error : {Undefined}, redirect : {Undefined},
          status : {Undefined}, progress : EdgeProgress]

NoHeaders ==
    [contentLength |-> Undefined, contentType |-> Undefined,
     contentDisposition |-> Undefined]

\* Callbacks for the stored jobs carry any query and headers, or an edge
\* query without a body; a callback for an unknown request id carries a bare
\* query or a full one, with or without a body.
Requests ==
    [requestId : StoredRequestIds, query : Queries, headers : Headers]
    \cup [requestId : StoredRequestIds, query : EdgeQueries, headers : {NoHeaders}]
    \cup [requestId : {"rX"},
          query : {EmptyQuery, FullQuery},
          headers : {x \in Headers : x.contentLength # "0" /\ x.contentType # FormEncoded}]

NoRequest == [requestId |-> Undefined, query |-> EmptyQuery,
              headers |-> [contentLength |-> Undefined, contentType |-> Undefined,
                           contentDisposition |-> Undefined]]

(***************************************************************************)
(* updateJobFields: the job as the function leaves it (a throw keeps what  *)
(* was applied before it) and the error it throws, if any.                 *)
(***************************************************************************)
Updated(job) == [threw |-> FALSE, job |-> job, error |-> NoError]

Failed(job, error) == [threw |-> TRUE, job |-> job, error |-> error]

\* The catch block: a TypeError becomes a RequestValidationError, anything
\* else a ServerError.
Rethrow(job, e) ==
    Failed(job, IF e.class = "TypeError" THEN RequestValidationError(e.message)
                ELSE ServerError(e.message))

\* item.bbox.split(',').map(parseFloat)
ParsedBbox(item) == [i \in DOMAIN item.bbox |-> parseFloat(item.bbox[i])]

\* Mutant: the number of components is not checked.
BboxInvalid_anyLength(item) ==
    LET bbox == ParsedBbox(item)
    IN  \E i \in DOMAIN bbox : bbox[i].nan

BboxInvalid(item) ==
    LET bbox == ParsedBbox(item)
    IN  Len(bbox) # 4 \/ \E i \in DOMAIN bbox : bbox[i].nan

\* item.temporal.split(',').map((t) => Date.parse(t))
ParsedTemporal(item) == [i \in DOMAIN item.temporal |-> DateParse(item.temporal[i])]

TemporalInvalid(item) ==
    LET temporal == ParsedTemporal(item)
    IN  Len(temporal) # 2 \/ \E i \in DOMAIN temporal : temporal[i].nan

\* The link built from a valid item.
ItemLink(item) ==
    Link(item.href, item.type,
         IF Truthy(item.rel) THEN item.rel ELSE "data",
         item.title,
         IF item.bbox # Absent THEN [i \in DOMAIN item.bbox |-> ParsedBbox(item)[i].value]
         ELSE Absent,
         IF item.temporal # Absent
         THEN [i \in DOMAIN item.temporal |-> toISOString(ParsedTemporal(item)[i].value)]
         ELSE Absent)

\* if (item) { ... job.addLink(link) }
ApplyItem(job, query) ==
    LET item == query.item
    IN  IF item = NoItem THEN Updated(job)
        ELSE IF item.bbox # Absent /\ BboxInvalid(item)
             THEN Failed(job, TypeError(BboxMessage))
        ELSE IF item.temporal # Absent /\ TemporalInvalid(item)
             THEN Failed(job, TypeError(TemporalMessage))
        ELSE Updated(addLink(job, ItemLink(item)))

\* if (progress) { ... job.progress = parseInt(progress, 10) }
ApplyProgress(job, query) ==
    IF ~Truthy(query.progress) THEN Updated(job)
    ELSE IF NumberIsNaN(query.progress) THEN Failed(job, TypeError(ProgressMessage))
    ELSE Updated([job EXCEPT !.progress = parseInt(query.progress)])

\* Mutant: the status field is looked at before the error field.
ApplyOutcome_statusFirst(job, query) ==
    IF Truthy(query.status)
    THEN IF updateStatusThrows(job, query.status)
         THEN Failed(job, TypeError(StatusMessage))
         ELSE Updated(updateStatus(job, query.status))
    ELSE IF Truthy(query.error) THEN Updated(fail(job, query.error))
    ELSE IF Truthy(query.redirect)
         THEN Updated(succeed(addLink(job,
                  Link(query.redirect, Undefined, "data", Undefined, Absent, Absent))))
    ELSE Updated(job)

\* Mutant: the redirect link is added but the job is not marked successful.
ApplyOutcome_noSucceed(job, query) ==
    IF Truthy(query.error) THEN Updated(fail(job, query.error))
    ELSE IF Truthy(query.status)
         THEN IF updateStatusThrows(job, query.status)
              THEN Failed(job, TypeError(StatusMessage))
              ELSE Updated(updateStatus(job, query.status))
    ELSE IF Truthy(query.redirect)
         THEN Updated(addLink(job,
                  Link(query.redirect, Undefined, "data", Undefined, Absent, Absent)))
    ELSE Updated(job)

\* if (error) ... else if (status) ... else if (redirect) ...
ApplyOutcome(job, query) ==
    IF Truthy(query.error) THEN Updated(fail(job, query.error))
    ELSE IF Truthy(query.status)
         THEN IF updateStatusThrows(job, query.status)
              THEN Failed(job, TypeError(StatusMessage))
              ELSE Updated(updateStatus(job, query.status))
    ELSE IF Truthy(query.redirect)
         THEN Updated(succeed(addLink(job,
                  Link(query.redirect, Undefined, "data", Undefined, Absent, Absent))))
    ELSE Updated(job)

updateJobFields(job, query) ==
    LET afterItem == ApplyItem(job, query)
    IN  IF afterItem.threw THEN Rethrow(afterItem.job, afterItem.error)
        ELSE
    LET afterProgress == ApplyProgress(afterItem.job, query)
    IN  IF afterProgress.threw THEN Rethrow(afterProgress.job, afterProgress.error)
        ELSE
    LET afterOutcome == ApplyOutcome(afterProgress.job, query)
    IN  IF afterOutcome.threw THEN Rethrow(afterOutcome.job, afterOutcome.error)
        ELSE afterOutcome

(***************************************************************************)
(* responseHandler, between its awaits.                                    *)
(***************************************************************************)
ItemHref(query) == IF query.item = NoItem THEN Undefined ELSE query.item.href

ItemTitle(query) == IF query.item = NoItem THEN Undefined ELSE query.item.title

\* The condition under which the body is taken to be a file result.
StagesBody(r) ==
    /\ ~Truthy(ItemHref(r.query))
    /\ ~Truthy(r.query.error)
    /\ Truthy(r.headers.contentLength)
    /\ r.headers.contentLength # "0"

\* req.headers['content-disposition'].match(/filename="([^"]+)"/)[1]
DispositionFilename(contentDisposition) ==
    CASE contentDisposition = "attachment; filename=\"f.nc\"" -> "f.nc"
      [] OTHER -> Undefined

Filename(r) ==
    IF /\ Truthy(r.headers.contentDisposition)
       /\ Truthy(DispositionFilename(r.headers.contentDisposition))
    THEN DispositionFilename(r.headers.contentDisposition)
    ELSE ItemTitle(r.query)

\* The item the handler builds for the staged body: its href and, for a
\* content type other than the form-encoded default, its type.
StagedItem(job, r) ==
    Item(getRelatedLinks(job, "s3-access")[1].href \o Filename(r),
         IF Truthy(r.headers.contentType) /\ r.headers.contentType # FormEncoded
         THEN r.headers.contentType ELSE Undefined,
         Undefined, Undefined, Absent, Absent)

\* What the handler throws before the upload starts, if anything; text is
\* the engine's wording for the read of [0].href on a job without a staging
\* link.
StagingError(job, r, text) ==
    IF Len(getRelatedLinks(job, "s3-access")) = 0 THEN TypeError(text)
    ELSE IF ~Truthy(Filename(r)) THEN TypeError(FilenameMessage)
    ELSE NoError

NoOverrides == [item |-> NoItem, status |-> Undefined]

\* Mutant: the status override is applied to asynchronous jobs instead.
Overrides_inverted(job, r) ==
    [item |-> StagedItem(job, r),
     status |-> IF job.isAsync THEN "successful" ELSE Undefined]

\* queryOverrides after a successful upload.
Overrides(job, r) ==
    [item |-> StagedItem(job, r),
     status |-> IF ~job.isAsync THEN "successful" ELSE Undefined]

\* _.merge({}, query, queryOverrides): recursive, the overrides win.
MergeItem(item, over) ==
    IF over = NoItem THEN item
    ELSE IF item = NoItem THEN over
    ELSE Item(IF over.href # Undefined THEN over.href ELSE item.href,
              IF over.type # Undefined THEN over.type ELSE item.type,
              IF over.rel # Undefined THEN over.rel ELSE item.rel,
              IF over.title # Undefined THEN over.title ELSE item.title,
              IF over.temporal # Absent THEN over.temporal ELSE item.temporal,
              IF over.bbox # Absent THEN over.bbox ELSE item.bbox)

Merge(query, queryOverrides) ==
    [query EXCEPT !.item = MergeItem(@, queryOverrides.item),
                  !.status = IF queryOverrides.status # Undefined
                             THEN queryOverrides.status ELSE @]

NoResponse == [status |-> 0, kind |-> Undefined, code |-> 0, message |-> Undefined]

\* res.status(status); res.json({ code, message })
JsonResponse(status, message) ==
    [status |-> status, kind |-> "json", code |-> status, message |-> message]

\* res.status(200); res.send('Ok')
OkResponse == [status |-> 200, kind |-> "send", code |-> 0, message |-> "Ok"]

\* const status = e.code || (e instanceof TypeError ? 400 : 500)
ErrorStatus(e) ==
    IF e.code # 0 THEN e.code ELSE IF e.class = "TypeError" THEN 400 ELSE 500

\* The finally block: one completion record when the job the handler holds
\* is complete.
CompletionRecords(job) ==
    IF isComplete(job)
    THEN <<[numOutputs |-> Len(getRelatedLinks(job, "data")), job |-> job]>>
    ELSE <<>>

\* What store.upload was given: the destination and the content type.
NoUpload == [href |-> Undefined, type |-> Undefined]

\* before is the persisted jobs as they were when the callback arrived,
\* loaded the job as Job.byRequestId returned it, unawaited the rollback
\* that was called without being awaited.
IdleHandler ==
    [pc |-> "idle", req |-> NoRequest, job |-> NoJob, trx |-> "none",
     pending |-> NoJob, err |-> NoError, res |-> NoResponse,
     uploaded |-> NoUpload, events |-> <<>>, records |-> <<>>,
     before |-> <<>>, loaded |-> NoJob, unawaited |-> "none"]

\* The handler after updateJobFields(logger, job, fields): on to job.save, or
\* into the catch block.
AfterUpdate(hs, fields) ==
    LET update == updateJobFields(hs.job, fields)
    IN  IF update.threw
        THEN [hs EXCEPT !.job = update.job, !.err = update.error, !.pc = "rollback"]
        ELSE [hs EXCEPT !.job = update.job, !.pc = "save"]

\* A callback arrives: the handler asks for a transaction and waits for it.
Receive(h) ==
    /\ handler[h].pc = "idle"
    /\ served < MaxCallbacks
    /\ \E r \in Requests :
           handler' = [handler EXCEPT ![h] =
                          [IdleHandler EXCEPT !.pc = "transaction", !.req = r,
                                              !.before = store]]
    /\ served' = served + 1
    /\ UNCHANGED <<store, routerVars>>

\* db.transaction() gives the transaction; Job.byRequestId is called.
TransactionDone(h) ==
    /\ handler[h].pc = "transaction"
    /\ handler' = [handler EXCEPT ![h] =
                      [@ EXCEPT !.trx = "open", !.pc = "byRequestId"]]
    /\ UNCHANGED <<store, served, routerVars>>

\* db.transaction() fails: the await is outside the try block, so the error
\* leaves the handler: no transaction, no response.
TransactionFailed(h) ==
    /\ handler[h].pc = "transaction"
    /\ handler' = [handler EXCEPT ![h] =
                      [@ EXCEPT !.err = PlainError("transaction failed"),
                                !.events = <<"throw">>,
                                !.pc = "failed"]]
    /\ UNCHANGED <<store, served, routerVars>>

\* Mutant: trx.rollback() is not called when the job is missing.
LoadMissing_noRollback(h) ==
    /\ handler[h].pc = "byRequestId"
    /\ handler[h].req.requestId \notin DOMAIN store
    /\ handler' = [handler EXCEPT ![h] =
                      [@ EXCEPT !.events = <<"response">>,
                                !.res = JsonResponse(404, "could not find a job with the given ID"),
                                !.pc = "done"]]
    /\ UNCHANGED <<store, served, routerVars>>

\* Job.byRequestId finds no job: trx.rollback() is called and not awaited,
\* 404 is sent and the handler returns with the rollback outstanding.
LoadMissing(h) ==
    /\ handler[h].pc = "byRequestId"
    /\ handler[h].req.requestId \notin DOMAIN store
    /\ handler' = [handler EXCEPT ![h] =
                      [@ EXCEPT !.unawaited = "outstanding",
                                !.events = <<"response">>,
                                !.res = JsonResponse(404, "could not find a job with the given ID"),
                                !.pc = "done"]]
    /\ UNCHANGED <<store, served, routerVars>>

\* The rollback that was not awaited completes, after the handler returned.
RollbackSettled(h) ==
    /\ handler[h].pc = "done"
    /\ handler[h].unawaited = "outstanding"
    /\ handler' = [handler EXCEPT ![h] =
                      [@ EXCEPT !.trx = "rolledBack",
                                !.unawaited = "settled",
                                !.events = Append(@, "rollback")]]
    /\ UNCHANGED <<store, served, routerVars>>

\* The rollback that was not awaited fails: nothing handles the rejection
\* and the transaction is not rolled back.
RollbackUnhandled(h) ==
    /\ handler[h].pc = "done"
    /\ handler[h].unawaited = "outstanding"
    /\ handler' = [handler EXCEPT ![h] =
                      [@ EXCEPT !.unawaited = "rejected",
                                !.events = Append(@, "unhandledRejection")]]
    /\ UNCHANGED <<store, served, routerVars>>

\* Job.byRequestId fails: the await is outside the try block, so the error
\* leaves the handler: no catch block, no finally block, no response.
LoadFailed(h) ==
    /\ handler[h].pc = "byRequestId"
    /\ handler' = [handler EXCEPT ![h] =
                      [@ EXCEPT !.err = PlainError("load failed"),
                                !.events = <<"throw">>,
                                !.pc = "failed"]]
    /\ UNCHANGED <<store, served, routerVars>>

\* Job.byRequestId gives the job; the handler runs on to its next await: the
\* upload of a posted body, or job.save, or the catch block's rollback.
LoadFound(h) ==
    /\ handler[h].pc = "byRequestId"
    /\ handler[h].req.requestId \in DOMAIN store
    /\ LET job == store[handler[h].req.requestId]
           r == handler[h].req
           hs == [handler[h] EXCEPT !.job = job, !.loaded = job]
       IN  \E text \in StagingMessages :
               handler' = [handler EXCEPT ![h] =
                   IF StagesBody(r)
                   THEN IF StagingError(job, r, text) # NoError
                        THEN [hs EXCEPT !.err = StagingError(job, r, text),
                                        !.pc = "rollback"]
                        ELSE [hs EXCEPT !.pc = "upload"]
                   ELSE AfterUpdate(hs, Merge(r.query, NoOverrides))]
    /\ UNCHANGED <<store, served, routerVars>>

\* store.upload completes: the overrides are merged and the job updated.
UploadDone(h) ==
    /\ handler[h].pc = "upload"
    /\ LET hs == handler[h]
           item == StagedItem(hs.job, hs.req)
       IN  handler' = [handler EXCEPT ![h] =
               AfterUpdate([hs EXCEPT !.events = Append(@, "upload"),
                                      !.uploaded = [href |-> item.href, type |-> item.type]],
                           Merge(hs.req.query, Overrides(hs.job, hs.req)))]
    /\ UNCHANGED <<store, served, routerVars>>

\* store.upload fails.
UploadFailed(h) ==
    /\ handler[h].pc = "upload"
    /\ handler' = [handler EXCEPT ![h] =
                      [@ EXCEPT !.err = PlainError("upload failed"), !.pc = "rollback"]]
    /\ UNCHANGED <<store, served, routerVars>>

\* Mutant: job.save writes outside the transaction, so the row is visible
\* at once.
SaveDone_unscoped(h) ==
    /\ handler[h].pc = "save"
    /\ store' = [store EXCEPT ![handler[h].req.requestId] = handler[h].job]
    /\ handler' = [handler EXCEPT ![h] =
                      [@ EXCEPT !.pending = handler[h].job, !.events = Append(@, "save"),
                                !.pc = "commit"]]
    /\ UNCHANGED <<served, routerVars>>

\* job.save(trx) writes the job's row inside the transaction.
SaveDone(h) ==
    /\ handler[h].pc = "save"
    /\ handler' = [handler EXCEPT ![h] =
                      [@ EXCEPT !.pending = handler[h].job, !.events = Append(@, "save"),
                                !.pc = "commit"]]
    /\ UNCHANGED <<store, served, routerVars>>

SaveFailed(h) ==
    /\ handler[h].pc = "save"
    /\ handler' = [handler EXCEPT ![h] =
                      [@ EXCEPT !.err = PlainError("save failed"), !.pc = "rollback"]]
    /\ UNCHANGED <<store, served, routerVars>>

\* Mutant: the commit adds the links the callback appended to the row as it
\* is now, instead of writing the row the handler holds.
CommitDone_merging(h) ==
    /\ handler[h].pc = "commit"
    /\ store' = [store EXCEPT ![handler[h].req.requestId] =
                    [handler[h].pending EXCEPT !.links =
                        store[handler[h].req.requestId].links
                        \o SubSeq(handler[h].pending.links,
                                  Len(handler[h].loaded.links) + 1,
                                  Len(handler[h].pending.links))]]
    /\ handler' = [handler EXCEPT ![h] =
                      [@ EXCEPT !.trx = "committed",
                                !.events = @ \o <<"commit", "response">>,
                                !.res = OkResponse,
                                !.records = CompletionRecords(handler[h].job),
                                !.pc = "done"]]
    /\ UNCHANGED <<served, routerVars>>

\* trx.commit() succeeds: the row becomes visible, 200 is sent and the
\* finally block runs.
CommitDone(h) ==
    /\ handler[h].pc = "commit"
    /\ store' = [store EXCEPT ![handler[h].req.requestId] = handler[h].pending]
    /\ handler' = [handler EXCEPT ![h] =
                      [@ EXCEPT !.trx = "committed",
                                !.events = @ \o <<"commit", "response">>,
                                !.res = OkResponse,
                                !.records = CompletionRecords(handler[h].job),
                                !.pc = "done"]]
    /\ UNCHANGED <<served, routerVars>>

CommitFailed(h) ==
    /\ handler[h].pc = "commit"
    /\ handler' = [handler EXCEPT ![h] =
                      [@ EXCEPT !.err = PlainError("commit failed"), !.pc = "rollback"]]
    /\ UNCHANGED <<store, served, routerVars>>

\* Mutant: the completion record is written on the commit path only.
Rollback_noRecord(h) ==
    /\ handler[h].pc = "rollback"
    /\ handler' = [handler EXCEPT ![h] =
                      [@ EXCEPT !.trx = "rolledBack",
                                !.pending = NoJob,
                                !.events = @ \o <<"rollback", "response">>,
                                !.res = JsonResponse(ErrorStatus(handler[h].err),
                                                      handler[h].err.message),
                                !.pc = "done"]]
    /\ UNCHANGED <<store, served, routerVars>>

\* The catch block: the rollback is awaited, then the failure is reported;
\* the finally block follows.
Rollback(h) ==
    /\ handler[h].pc = "rollback"
    /\ handler' = [handler EXCEPT ![h] =
                      [@ EXCEPT !.trx = "rolledBack",
                                !.pending = NoJob,
                                !.events = @ \o <<"rollback", "response">>,
                                !.res = JsonResponse(ErrorStatus(handler[h].err),
                                                      handler[h].err.message),
                                !.records = CompletionRecords(handler[h].job),
                                !.pc = "done"]]
    /\ UNCHANGED <<store, served, routerVars>>

\* The catch block's rollback fails: the error leaves the catch block, the
\* finally block runs and the handler's promise is rejected: no response,
\* and the transaction is not rolled back.
RollbackFailed(h) ==
    /\ handler[h].pc = "rollback"
    /\ handler' = [handler EXCEPT ![h] =
                      [@ EXCEPT !.err = PlainError("rollback failed"),
                                !.events = Append(@, "throw"),
                                !.records = CompletionRecords(handler[h].job),
                                !.pc = "failed"]]
    /\ UNCHANGED <<store, served, routerVars>>

\* The invocation is over and the rollback it may have left outstanding has
\* settled: its locals are gone.
Finish(h) ==
    /\ handler[h].pc \in {"done", "failed"}
    /\ handler[h].unawaited # "outstanding"
    /\ handler' = [handler EXCEPT ![h] = IdleHandler]
    /\ UNCHANGED <<store, served, routerVars>>

CallbackIdle ==
    /\ store = [id \in StoredRequestIds |-> NewJob(id, id = "r1")]
    /\ served = 0
    /\ handler = [h \in Handlers |-> IdleHandler]

RouterIdle ==
    /\ operation = [sources |-> <<>>, outputFormat |-> Undefined]
    /\ context = [defined |-> FALSE]
    /\ entryFormat = Undefined
    /\ noOpMessage = NoMessage
    /\ phase = "idle"

\* One callback after another, each handled to its end.
Init ==
    /\ CallbackIdle
    /\ RouterIdle
    /\ configs = <<>>
    /\ result = [outcome |-> "none", class |-> Undefined, config |-> noOpService]
    /\ held = [result |-> result, message |-> NoMessage]

\* Callbacks are handled one at a time, by one invocation.
Active == {"h1"}

Next ==
    \E h \in Active :
        \/ Receive(h)
        \/ TransactionDone(h)
        \/ TransactionFailed(h)
        \/ LoadMissing(h)
        \/ RollbackSettled(h)
        \/ RollbackUnhandled(h)
        \/ LoadFailed(h)
        \/ LoadFound(h)
        \/ UploadDone(h)
        \/ UploadFailed(h)
        \/ SaveDone(h)
        \/ SaveFailed(h)
        \/ CommitDone(h)
        \/ CommitFailed(h)
        \/ Rollback(h)
        \/ RollbackFailed(h)
        \/ Finish(h)

Spec == Init /\ [][Next]_vars

(***************************************************************************)
(* Callbacks in sequence for the same jobs: a few callbacks, one after     *)
(* another, each handled to its end before the next arrives.               *)
(***************************************************************************)
MaxSequence == 2

BodyNamedHeaders ==
    [contentLength |-> "5", contentType |-> "application/x-netcdf4",
     contentDisposition |-> "attachment; filename=\"f.nc\""]

SeqQueries ==
    { [EmptyQuery EXCEPT !.redirect = "http://redirect/1"],
      [EmptyQuery EXCEPT !.error = "boom"],
      [EmptyQuery EXCEPT !.status = "running"],
      [EmptyQuery EXCEPT !.status = "canceled"],
      [EmptyQuery EXCEPT !.progress = "50"],
      [EmptyQuery EXCEPT !.item = Item("http://data/2", Undefined, "data", Undefined,
                                       Absent, <<"10", "20", "30">>)],
      [EmptyQuery EXCEPT !.item = FullQuery.item] }

SeqRequests ==
    [requestId : {"r1"}, query : SeqQueries, headers : {NoHeaders}]
    \cup [requestId : {"r2"}, query : {EmptyQuery}, headers : {NoHeaders, BodyNamedHeaders}]
    \cup [requestId : {"rX"}, query : {EmptyQuery}, headers : {NoHeaders}]

SeqReceive(h) ==
    /\ handler[h].pc = "idle"
    /\ served < MaxSequence
    /\ \E r \in SeqRequests :
           handler' = [handler EXCEPT ![h] =
                          [IdleHandler EXCEPT !.pc = "transaction", !.req = r,
                                              !.before = store]]
    /\ served' = served + 1
    /\ UNCHANGED <<store, routerVars>>

SeqNext ==
    \E h \in Active :
        \/ SeqReceive(h)
        \/ TransactionDone(h)
        \/ TransactionFailed(h)
        \/ LoadMissing(h)
        \/ RollbackSettled(h)
        \/ RollbackUnhandled(h)
        \/ LoadFailed(h)
        \/ LoadFound(h)
        \/ UploadDone(h)
        \/ UploadFailed(h)
        \/ SaveDone(h)
        \/ SaveFailed(h)
        \/ CommitDone(h)
        \/ CommitFailed(h)
        \/ Rollback(h)
        \/ RollbackFailed(h)
        \/ Finish(h)

SeqSpec == Init /\ [][SeqNext]_vars

(***************************************************************************)
(* Callbacks racing: two invocations are in flight at once and take their  *)
(* steps in any order.  Each reads the committed row when it loads the job *)
(* and makes its own row visible when it commits.                          *)
(***************************************************************************)
MaxRacing == 2

RaceRequests ==
    [requestId : {"r1"},
     query : {[EmptyQuery EXCEPT !.item = FullQuery.item],
              [EmptyQuery EXCEPT !.redirect = "http://redirect/1"]},
     headers : {NoHeaders}]
    \cup [requestId : {"r2"}, query : {EmptyQuery}, headers : {BodyNamedHeaders}]
    \cup [requestId : {"rX"}, query : {EmptyQuery}, headers : {NoHeaders}]

RaceReceive(h) ==
    /\ handler[h].pc = "idle"
    /\ served < MaxRacing
    /\ \E r \in RaceRequests :
           handler' = [handler EXCEPT ![h] =
                          [IdleHandler EXCEPT !.pc = "transaction", !.req = r,
                                              !.before = store]]
    /\ served' = served + 1
    /\ UNCHANGED <<store, routerVars>>

RaceNext ==
    \E h \in Handlers :
        \/ RaceReceive(h)
        \/ TransactionDone(h)
        \/ TransactionFailed(h)
        \/ LoadMissing(h)
        \/ RollbackSettled(h)
        \/ RollbackUnhandled(h)
        \/ LoadFailed(h)
        \/ LoadFound(h)
        \/ UploadDone(h)
        \/ UploadFailed(h)
        \/ SaveDone(h)
        \/ SaveFailed(h)
        \/ CommitDone(h)
        \/ CommitFailed(h)
        \/ Rollback(h)
        \/ RollbackFailed(h)
        \/ Finish(h)

RaceSpec == Init /\ [][RaceNext]_vars

(***************************************************************************)
(* The router as a state machine: the registry is loaded once, then        *)
(* forOperation is called for one operation after another.                 *)
(***************************************************************************)
NoResult == [outcome |-> "none", class |-> Undefined, config |-> noOpService]

NoOperation == [sources |-> <<>>, outputFormat |-> Undefined]

NothingHeld == [result |-> NoResult, message |-> NoMessage]

RouterInit ==
    /\ configs \in SeqsUpTo(ServiceConfigs, MaxConfigs)
    /\ operation = NoOperation
    /\ context = NoContext
    /\ entryFormat = Undefined
    /\ result = NoResult
    /\ noOpMessage = NoMessage
    /\ phase = "idle"
    /\ held = NothingHeld
    /\ CallbackIdle

\* One call of forOperation(operation, context, configs).
Route ==
    /\ phase = "idle"
    /\ \E op \in Operations, ctx \in Contexts :
        LET call == forOperation(op, ctx, configs, noOpMessage)
        IN  /\ operation' = [op EXCEPT !.outputFormat = call.outputFormat]
            /\ context' = ctx
            /\ entryFormat' = op.outputFormat
            /\ result' = call.result
            /\ noOpMessage' = call.noOpMessage
    /\ phase' = "called"
    /\ UNCHANGED <<configs, held, callbackVars>>

\* The caller keeps the service it was given; the router is free for the
\* next operation.
Release ==
    /\ phase = "called"
    /\ held' = [result |-> result, message |-> noOpMessage]
    /\ operation' = NoOperation
    /\ context' = NoContext
    /\ entryFormat' = Undefined
    /\ result' = NoResult
    /\ phase' = "idle"
    /\ UNCHANGED <<configs, noOpMessage, callbackVars>>

RouterNext == Route

RouterSpec == RouterInit /\ [][RouterNext]_vars

\* Operation after operation, against a registry of at most one descriptor.
RouterSeqInit == RouterInit /\ Len(configs) <= 1

RouterSeqNext == Route \/ Release

RouterSeqSpec == RouterSeqInit /\ [][RouterSeqNext]_vars

(***************************************************************************)
(* Properties of the router.  The conditions below are stated on the       *)
(* registry, the operation as it was on entry and the context, not through *)
(* the router's own stages.                                                *)
(***************************************************************************)
Returned == phase = "called"

\* Descriptor i of the registry lists the collection of every source.
Covers(i) ==
    \A j \in DOMAIN operation.sources :
        operation.sources[j].collection \in configs[i].collections

CollectionMatching == {i \in DOMAIN configs : Covers(i)}

NeedsVariables ==
    \E j \in DOMAIN operation.sources : operation.sources[j].variables # <<>>

HasVariableSubsetting(i) == configs[i].capabilities.subsetting.variable

\* The formats the request asks for: operation.outputFormat when it was set
\* on entry, else the context's requestedMimeTypes.
AsksFormat ==
    entryFormat # Undefined \/ (context.defined /\ context.requestedMimeTypes # <<>>)

AskedFormats ==
    IF entryFormat # Undefined THEN <<entryFormat>>
    ELSE IF context.defined THEN context.requestedMimeTypes ELSE <<>>

OffersAsked(i) ==
    \E k \in DOMAIN configs[i].capabilities.output_formats, a \in DOMAIN AskedFormats :
        isMimeTypeAccepted(configs[i].capabilities.output_formats[k], AskedFormats[a])

IsNoOp == result.outcome = "service" /\ result.class = "NoOpService"
              /\ result.config = noOpService

\* C1: when no descriptor lists the collection of every source, forOperation
\* returns the no-op service and its message is exactly 'no services are
\* configured for the collection', whatever else was requested.
C1_NoCollectionMatch ==
    (Returned /\ CollectionMatching = {})
        => /\ IsNoOp
           /\ noOpMessage = [text |-> "no services are configured for the collection",
                             formats |-> <<>>]

\* C1 witness: a registry of two descriptors, each covering one source of
\* the operation but not the other, with variables and formats requested as
\* well.
C1_Witness ==
    /\ Returned /\ CollectionMatching = {} /\ IsNoOp
    /\ Len(configs) = 2
    /\ \A i \in DOMAIN configs :
           \E j \in DOMAIN operation.sources :
               operation.sources[j].collection \in configs[i].collections
    /\ NeedsVariables /\ AsksFormat

\* C2: when some source names variables, some descriptor covers every source
\* collection and no covering descriptor has the variable-subsetting
\* capability, forOperation returns the no-op service with message exactly
\* 'none of the services configured for the collection support variable
\* subsetting', whatever format was requested.
C2_NoVariableSubsetting ==
    (/\ Returned /\ NeedsVariables
     /\ CollectionMatching # {}
     /\ \A i \in CollectionMatching : ~HasVariableSubsetting(i))
        => /\ IsNoOp
           /\ noOpMessage =
                  [text |-> "none of the services configured for the collection support variable subsetting",
                   formats |-> <<>>]

\* C2 witness: two sources of which only one names variables, a registry
\* holding a subsetting descriptor that does not cover the collections, and
\* a format requested too.
C2_Witness ==
    /\ Returned /\ NeedsVariables /\ IsNoOp
    /\ CollectionMatching # {}
    /\ \A i \in CollectionMatching : ~HasVariableSubsetting(i)
    /\ \E i \in DOMAIN configs : HasVariableSubsetting(i)
    /\ \E j \in DOMAIN operation.sources : operation.sources[j].variables = <<>>
    /\ AsksFormat

\* C3: for an operation that needs variable subsetting and asks for a format:
\* if among the collection-matching descriptors one supports variable
\* subsetting and one offers an asked format but none does both, the no-op
\* service is returned with the message naming both jointly; if one supports
\* variable subsetting and none offers an asked format, the message is the
\* format-only reason.
C3_CombinationMessage ==
    (/\ Returned /\ NeedsVariables /\ AsksFormat
     /\ \E i \in CollectionMatching : HasVariableSubsetting(i)
     /\ ~\E i \in CollectionMatching : HasVariableSubsetting(i) /\ OffersAsked(i))
        => /\ IsNoOp
           /\ noOpMessage =
                  [text |-> IF \E i \in CollectionMatching : OffersAsked(i)
                            THEN "none of the services support the combination of both variable subsetting and any of the requested formats "
                            ELSE "none of the services configured for the collection support reformatting to any of the requested formats ",
                   formats |-> AskedFormats]

\* C3 witness: the joint message, reached from a requested pattern with no
\* output format set on entry.
C3_Witness ==
    /\ Returned /\ NeedsVariables /\ IsNoOp
    /\ entryFormat = Undefined /\ context.defined /\ Len(context.requestedMimeTypes) = 1
    /\ \E i \in CollectionMatching : HasVariableSubsetting(i)
    /\ \E i \in CollectionMatching : OffersAsked(i)
    /\ ~\E i \in CollectionMatching : HasVariableSubsetting(i) /\ OffersAsked(i)
    /\ noOpMessage.text = CombinationText

\* The returned descriptor lists an output format that operation.outputFormat
\* accepts.
ConsistentWithOutputFormat ==
    \E k \in DOMAIN result.config.capabilities.output_formats :
        isMimeTypeAccepted(result.config.capabilities.output_formats[k],
                           operation.outputFormat)

\* C4 as stated: whenever forOperation returns and operation.outputFormat is
\* set, the returned service's descriptor lists an output format accepted by
\* operation.outputFormat.
C4_Original ==
    (Returned /\ result.outcome = "service" /\ operation.outputFormat # Undefined)
        => ConsistentWithOutputFormat

\* C4 amended: whenever forOperation selects a descriptor of the registry (it
\* does not fall back to the no-op service) and operation.outputFormat is
\* set, that descriptor lists an output format accepted by
\* operation.outputFormat.
C4_SelectedConsistent ==
    (Returned /\ ~IsNoOp /\ operation.outputFormat # Undefined)
        => ConsistentWithOutputFormat

\* C4 witness: a format resolved from the request's patterns, served by the
\* second descriptor because the first one does not offer it.
C4_Witness ==
    /\ Returned /\ result.outcome = "service" /\ ~IsNoOp
    /\ entryFormat = Undefined /\ operation.outputFormat # Undefined
    /\ Len(configs) = 2 /\ CollectionMatching = {1, 2}
    /\ result.config = configs[2] /\ configs[1] # configs[2]
    /\ ~\E k \in DOMAIN configs[1].capabilities.output_formats :
           isMimeTypeAccepted(configs[1].capabilities.output_formats[k],
                              operation.outputFormat)

\* C5: the unsupported-operation signal never leaves forOperation: a call
\* ends with a service (a real one, or the no-op one carrying a message) or
\* with a not-found error, and the latter only when the selected
\* descriptor's kind is none that buildService knows.
C5_NoUnsupportedEscapes ==
    Returned =>
        /\ result.outcome \in {"service", "NotFoundError"}
        /\ result.outcome = "NotFoundError"
               => /\ result.config.type.name \notin {"docker", "http", "noOp"}
                  /\ \E i \in DOMAIN configs : result.config = configs[i]
        /\ IsNoOp => noOpMessage.text # Undefined

\* C5 witness: the combination diagnosis ran (its re-run of the collection
\* stage included) and the call still ended with the no-op service.
C5_Witness ==
    /\ Returned /\ IsNoOp /\ NeedsVariables
    /\ noOpMessage.text \in {ReformattingText, CombinationText}

\* C6 as stated: the descriptor and message a caller obtained for one
\* operation are not altered by a later forOperation call made for another
\* operation.
C6_EarlierResultKept ==
    held.result.class = "NoOpService" => noOpMessage = held.message

(***************************************************************************)
(* Properties of the callback handler, read off the invocation h1 once it  *)
(* has responded.                                                          *)
(***************************************************************************)
H == handler["h1"]

Responded == H.pc = "done"

JobExists == H.req.requestId \in StoredRequestIds

Persisted == store[H.req.requestId]

PersistedBefore == H.before[H.req.requestId]

Last(seq) == seq[Len(seq)]

\* The callback posts a body that is to be staged: a content length other
\* than zero, no item.href and no error.
PostsBody ==
    /\ H.req.headers.contentLength \notin {Undefined, "0"}
    /\ (H.req.query.item = NoItem \/ H.req.query.item.href = Undefined)
    /\ H.req.query.error = Undefined

\* The filename the callback names: the Content-Disposition filename, else
\* the item title.
NamedFile ==
    IF H.req.headers.contentDisposition = "attachment; filename=\"f.nc\"" THEN "f.nc"
    ELSE IF H.req.query.item = NoItem THEN Undefined
    ELSE H.req.query.item.title

StagingLocation == SelectSeq(PersistedBefore.links, LAMBDA l : l.rel = "s3-access")[1].href

\* C7: a callback whose request id matches no stored job rolls back its
\* transaction, responds 404 with a {code, message} body and leaves every
\* stored job unchanged; no upload, field update or save is attempted.  The
\* rollback has been called when the response is sent and, unless the
\* database refuses it, the transaction ends rolled back; it is never
\* committed.
C7_UnknownRequestId ==
    (Responded /\ ~JobExists)
        => /\ H.unawaited \in {"outstanding", "settled", "rejected"}
           /\ H.trx = (IF H.unawaited = "settled" THEN "rolledBack" ELSE "open")
           /\ H.unawaited = "settled" => \E i \in DOMAIN H.events : H.events[i] = "rollback"
           /\ H.res.status = 404 /\ H.res.kind = "json" /\ H.res.code = 404
           /\ H.res.message = "could not find a job with the given ID"
           /\ store = H.before
           /\ \A i \in DOMAIN H.events : H.events[i] \notin {"upload", "save", "commit"}
           /\ H.uploaded = NoUpload /\ H.job = NoJob /\ H.pending = NoJob

\* C7 witness: an unknown request id on a callback that carries an item, a
\* redirect, a status, a progress and a body.
C7_Witness ==
    /\ Responded /\ ~JobExists /\ H.res.status = 404
    /\ H.trx = "rolledBack" /\ H.events = <<"response", "rollback">>
    /\ H.req.query.item # NoItem /\ H.req.query.redirect # Undefined
    /\ H.req.headers.contentLength = "5"

\* C8: a callback on an existing job that carries redirect, no error, no
\* status and no body to stage, once committed, leaves the persisted job
\* successful with its links ending in a new link of rel 'data' whose href is
\* the redirect value.
C8_RedirectSucceeds ==
    (/\ Responded /\ JobExists /\ H.res.status = 200
     /\ H.req.query.redirect # Undefined
     /\ H.req.query.error = Undefined /\ H.req.query.status = Undefined
     /\ ~PostsBody)
        => /\ H.trx = "committed"
           /\ Persisted.status = "successful"
           /\ Len(Persisted.links) > Len(PersistedBefore.links)
           /\ Last(Persisted.links).rel = "data"
           /\ Last(Persisted.links).href = H.req.query.redirect
           /\ \A i \in DOMAIN PersistedBefore.links :
                  Persisted.links[i] = PersistedBefore.links[i]

\* C8 witness: the redirect arrives together with an item and a progress, so
\* the redirect link is the second link the callback adds.
C8_Witness ==
    /\ Responded /\ JobExists /\ H.res.status = 200 /\ ~PostsBody
    /\ H.req.query.redirect # Undefined
    /\ H.req.query.error = Undefined /\ H.req.query.status = Undefined
    /\ H.req.query.item # NoItem /\ H.req.query.progress = "50"
    /\ Len(Persisted.links) = Len(PersistedBefore.links) + 2
    /\ Persisted.status = "successful"

\* The staged body of a committed callback: uploaded to staging location +
\* filename, with a link to that address appended to the persisted job.
StagedAndLinked ==
    /\ H.uploaded.href = StagingLocation \o NamedFile
    /\ \E i \in DOMAIN Persisted.links :
           /\ i > Len(PersistedBefore.links)
           /\ Persisted.links[i].href = StagingLocation \o NamedFile

CommittedBodyCallback ==
    /\ Responded /\ JobExists /\ H.res.status = 200
    /\ PostsBody /\ NamedFile # Undefined

\* C9 as stated (for callbacks that commit): a synchronous job's body
\* callback stages the body, links it and ends successful whatever status or
\* redirect it carried; for an asynchronous job the same callback adds the
\* link but does not change the status.
C9_Original ==
    CommittedBodyCallback
        => /\ StagedAndLinked
           /\ ~PersistedBefore.isAsync => Persisted.status = "successful"
           /\ PersistedBefore.isAsync => Persisted.status = PersistedBefore.status

\* C9 amended: the synchronous part as stated; for an asynchronous job the
\* same callback adds the link and the status is the one the callback itself
\* asks for: its status field if it has one, else successful if it carries a
\* redirect, else unchanged.
C9_BodyCallback ==
    CommittedBodyCallback
        => /\ StagedAndLinked
           /\ ~PersistedBefore.isAsync => Persisted.status = "successful"
           /\ PersistedBefore.isAsync =>
                  Persisted.status =
                      IF H.req.query.status # Undefined THEN H.req.query.status
                      ELSE IF H.req.query.redirect # Undefined THEN "successful"
                      ELSE PersistedBefore.status

\* C9 witness: a synchronous job, a body named by the item title, a status
\* field other than successful and a redirect, committed as successful.
C9_Witness ==
    /\ CommittedBodyCallback /\ ~PersistedBefore.isAsync
    /\ H.req.query.status = "running" /\ H.req.query.redirect # Undefined
    /\ H.req.headers.contentDisposition = Undefined
    /\ Persisted.status = "successful"
    /\ PersistedBefore.status # "successful"

\* C10: a callback on an existing job that ends with a response other than
\* 200 leaves the persisted jobs as they were, and its transaction is rolled
\* back before the response is sent.
C10_FailureLeavesNoTrace ==
    (Responded /\ JobExists /\ H.res.status # 200)
        => /\ store = H.before
           /\ H.trx = "rolledBack"
           /\ H.res.status \in {400, 500}
           /\ Len(H.events) >= 2
           /\ H.events[Len(H.events) - 1] = "rollback"
           /\ Last(H.events) = "response"
           /\ \A i \in DOMAIN H.events : H.events[i] # "commit"

\* C10 witness: a valid item with an invalid progress: the link is on the
\* job the handler holds, not on the persisted one.
C10_Witness ==
    /\ Responded /\ JobExists /\ H.res.status = 400
    /\ H.req.query.item # NoItem /\ H.req.query.progress = "abc"
    /\ Len(H.job.links) = Len(PersistedBefore.links) + 1
    /\ Persisted = PersistedBefore

\* C11: once the persisted status of a job is terminal, a later callback for
\* that job leaves its persisted status, progress and links as they were.
C11_TerminalIsFinal ==
    (Responded /\ JobExists /\ PersistedBefore.status \in TerminalStatuses)
        => /\ Persisted.status = PersistedBefore.status
           /\ Persisted.progress = PersistedBefore.progress
           /\ Persisted.links = PersistedBefore.links

\* The strings that are written as one number, and as one RFC-3339 date.
NumericLiteral(str) ==
    str \in {"0", "10", "20", "30", "40", "50", "100", "150", "-5", "1.5"}

\* The bbox components that parse as a number, and the number: a component
\* is read up to the first character that cannot continue a number.
ParsesAsNumber(str) == str \in {"10", "20", "30", "40", "50", "7x"}

NumberOf(str) ==
    CASE str = "10" -> 10 [] str = "20" -> 20 [] str = "30" -> 30
      [] str = "40" -> 40 [] str = "50" -> 50 [] str = "7x" -> 7

GoodBbox(bbox) == Len(bbox) = 4 /\ \A i \in DOMAIN bbox : ParsesAsNumber(bbox[i])

DateLiteral(str) == str \in {"2020-01-01T00:00:00Z", "2020-01-02T00:00:00Z"}

CarriesItem == H.req.query.item # NoItem

BadBbox ==
    /\ CarriesItem /\ H.req.query.item.bbox # Absent
    /\ ~GoodBbox(H.req.query.item.bbox)

BadTemporal ==
    /\ CarriesItem /\ H.req.query.item.temporal # Absent
    /\ \/ Len(H.req.query.item.temporal) # 2
       \/ \E i \in DOMAIN H.req.query.item.temporal :
              ~DateLiteral(H.req.query.item.temporal[i])

BadProgress ==
    H.req.query.progress # Undefined /\ ~NumericLiteral(H.req.query.progress)

\* The status field counts when it is the one that is applied: no error
\* field, and no override by a synchronous job's posted body.
BadStatus ==
    /\ H.req.query.error = Undefined
    /\ H.req.query.status # Undefined
    /\ H.req.query.status \notin JobStatuses
    /\ ~(PostsBody /\ ~PersistedBefore.isAsync)

NoFilename == PostsBody /\ NamedFile = Undefined

ValidationFailure == BadBbox \/ BadTemporal \/ BadProgress \/ BadStatus \/ NoFilename

OtherFailure == H.err.message \in {"upload failed", "save failed", "commit failed"}

\* C12: a validation-class failure (bad bbox, bad temporal, non-numeric
\* progress, unresolved filename, bad status value) is answered 400 (unless
\* the upload failed first); a failed upload, save or commit is answered 500
\* unless the error carries its own code; 200 is sent only when nothing
\* failed.
C12_FailureMapping ==
    (Responded /\ JobExists)
        => /\ (ValidationFailure /\ H.err.message # "upload failed") => H.res.status = 400
           /\ OtherFailure =>
                  H.res.status = (IF H.err.code # 0 THEN H.err.code ELSE 500)
           /\ H.res.status = 200 => (~ValidationFailure /\ ~OtherFailure)

\* C13: for a callback item with a bbox, four components that each parse as
\* a number give a link whose bbox is those four numbers, in the order
\* given (provided the item's temporal is valid too); any other bbox gives
\* a validation error and no link is added to the job, held or persisted.
C13_Bbox ==
    (Responded /\ JobExists /\ CarriesItem /\ H.req.query.item.bbox # Absent)
        => LET bbox == H.req.query.item.bbox
               n == Len(PersistedBefore.links)
           IN  /\ (GoodBbox(bbox) /\ ~BadTemporal) =>
                      /\ Len(H.job.links) > n
                      /\ H.job.links[n + 1].href = H.req.query.item.href
                      /\ H.job.links[n + 1].bbox = [i \in 1..4 |-> NumberOf(bbox[i])]
               /\ ~GoodBbox(bbox) =>
                      /\ H.err = RequestValidationError(BboxMessage)
                      /\ H.res.status = 400
                      /\ H.job.links = PersistedBefore.links
                      /\ Persisted.links = PersistedBefore.links

\* C13 witness: the bbox 10,20,30,40 is committed as [10, 20, 30, 40].
C13_Witness ==
    /\ Responded /\ JobExists /\ CarriesItem /\ H.res.status = 200
    /\ H.req.query.item.bbox = <<"10", "20", "30", "40">>
    /\ Last(Persisted.links).bbox = <<10, 20, 30, 40>>
    /\ Len(Persisted.links) = Len(PersistedBefore.links) + 1

(***************************************************************************)
(* The format stage of the router, stated over the registry.               *)
(***************************************************************************)
\* The descriptors that survive the collection and the variable stage.
Stage2 == {i \in CollectionMatching : NeedsVariables => HasVariableSubsetting(i)}

Offers(i, pattern) ==
    \E k \in DOMAIN configs[i].capabilities.output_formats :
        isMimeTypeAccepted(configs[i].capabilities.output_formats[k], pattern)

First(S) == CHOOSE i \in S : \A j \in S : i <= j

Requested == IF context.defined THEN context.requestedMimeTypes ELSE <<>>

\* The positions of the requested patterns that some stage-2 descriptor
\* accepts.
ScanHits == {a \in DOMAIN Requested : \E i \in Stage2 : Offers(i, Requested[a])}

\* The first matching entry of the first stage-2 descriptor that accepts the
\* first such pattern.
ScanResolved ==
    LET pattern == Requested[First(ScanHits)]
        formats == configs[First({i \in Stage2 : Offers(i, pattern)})].capabilities.output_formats
    IN  formats[First({k \in DOMAIN formats : isMimeTypeAccepted(formats[k], pattern)})]

\* The first stage-2 descriptor, in declaration order, that supports a format.
SelectedFor(format) == configs[First({i \in Stage2 : Offers(i, format)})]

\* C14 as stated: whenever outputFormat is set on entry or patterns are
\* requested, the resolved format is the one the scan of requestedMimeTypes
\* finds; it is written to operation.outputFormat and the first stage-2
\* descriptor supporting it is the one returned.
C14_Original ==
    (Returned /\ AsksFormat /\ ScanHits # {})
        => /\ operation.outputFormat = ScanResolved
           /\ result.config = SelectedFor(ScanResolved)

\* C14 amended: an outputFormat set on entry is the resolved format as it
\* is, and requestedMimeTypes is not scanned; only when outputFormat is unset
\* on entry is the resolved format the one the scan finds.  In both cases
\* operation.outputFormat holds the resolved format on return and the first
\* stage-2 descriptor supporting it is the one returned.
C14_FormatStage ==
    /\ (Returned /\ entryFormat = Undefined /\ ScanHits # {})
           => /\ operation.outputFormat = ScanResolved
              /\ result.config = SelectedFor(ScanResolved)
    /\ (Returned /\ entryFormat # Undefined /\ \E i \in Stage2 : Offers(i, entryFormat))
           => /\ operation.outputFormat = entryFormat
              /\ result.config = SelectedFor(entryFormat)

\* C14 witness: the first descriptor does not survive to the format stage,
\* the first requested pattern is accepted by no stage-2 descriptor, and the
\* second pattern resolves to the second descriptor's first format.
C14_Witness ==
    /\ Returned /\ entryFormat = Undefined
    /\ Len(configs) = 2 /\ Stage2 = {2} /\ ScanHits = {2}
    /\ Offers(1, Requested[1])
    /\ Requested[2] = "*/*"
    /\ result.outcome = "service" /\ result.config = configs[2]
    /\ operation.outputFormat = configs[2].capabilities.output_formats[1]

\* The integer a progress string starts with; a blank has none.
LeadingInteger(str) ==
    CASE str = "0" -> Num(0) [] str = "50" -> Num(50) [] str = "100" -> Num(100)
      [] str = "150" -> Num(150) [] str = "-5" -> Num(-5) [] str = "1.5" -> Num(1)
      [] str = "50px" -> Num(50) [] OTHER -> NaN

(***************************************************************************)
(* The order in which the merged callback fields are applied.              *)
(***************************************************************************)
\* updateJobFields ran to its end: the callback committed, or failed only in
\* job.save or trx.commit.
FieldsApplied ==
    /\ Responded /\ JobExists
    /\ H.res.status = 200 \/ H.err.message \in {"save failed", "commit failed"}

\* The merged fields: a staged body gives an item, and for a synchronous job
\* the status successful.
MergedStatus ==
    IF PostsBody /\ ~PersistedBefore.isAsync THEN "successful" ELSE H.req.query.status

ItemLinks == IF CarriesItem \/ PostsBody THEN 1 ELSE 0

RedirectLink == Link(H.req.query.redirect, Undefined, "data", Undefined, Absent, Absent)

\* C15: once item and progress are applied, exactly one status-changing
\* branch runs, by priority error > status > redirect: with error the job is
\* failed and no redirect link is added; else with status the job takes that
\* status and no redirect link is added; else with redirect a data link is
\* added last and the job is successful; else the status is unchanged.  A
\* failure in item or progress leaves the status untouched.
C15_Priority ==
    /\ FieldsApplied =>
           LET n == Len(PersistedBefore.links) + ItemLinks
           IN  /\ H.job.progress =
                      (IF H.req.query.progress = Undefined THEN PersistedBefore.progress
                       ELSE LeadingInteger(H.req.query.progress))
               /\ IF H.req.query.error # Undefined
                  THEN /\ H.job.status = "failed" /\ H.job.message = H.req.query.error
                       /\ Len(H.job.links) = n
                  ELSE IF MergedStatus # Undefined
                  THEN H.job.status = MergedStatus /\ Len(H.job.links) = n
                  ELSE IF H.req.query.redirect # Undefined
                  THEN /\ H.job.status = "successful"
                       /\ Len(H.job.links) = n + 1
                       /\ Last(H.job.links) = RedirectLink
                  ELSE H.job.status = PersistedBefore.status /\ Len(H.job.links) = n
    /\ (Responded /\ JobExists
           /\ H.err.message \in {BboxMessage, TemporalMessage, ProgressMessage})
           => H.job.status = PersistedBefore.status

\* C15 witness: error, status and redirect together with an item and a
\* progress: the job is failed, with the item link and without a redirect
\* link.
C15_Witness ==
    /\ FieldsApplied /\ H.res.status = 200
    /\ H.req.query.error # Undefined /\ H.req.query.status = "running"
    /\ H.req.query.redirect # Undefined /\ CarriesItem
    /\ H.req.query.progress = "50"
    /\ Persisted.status = "failed" /\ Persisted.progress = Num(50)
    /\ Len(Persisted.links) = Len(PersistedBefore.links) + 1

(***************************************************************************)
(* The transaction of one invocation.                                      *)
(***************************************************************************)
\* The invocation is over: it has responded, or its promise was rejected.
Ended == H.pc \in {"done", "failed"}

Position(events, e) == CHOOSE i \in DOMAIN events : events[i] = e

Occurs(events, e) == \E i \in DOMAIN events : events[i] = e

\* The invocation was given a transaction, and no rollback it called is
\* still outstanding or was refused by the database.
RollbackRefused == H.unawaited = "rejected" \/ H.err.message = "rollback failed"

TransactionSettled ==
    H.trx # "none" /\ H.unawaited # "outstanding" /\ ~RollbackRefused

\* C16: when an invocation is over its transaction has been ended exactly
\* once: committed, and then after the upload (if the body was staged) and
\* the save, or rolled back; never left open, never both.
C16_TransactionEnded ==
    (Ended /\ TransactionSettled) =>
        /\ H.trx \in {"committed", "rolledBack"}
        /\ ~(Occurs(H.events, "commit") /\ Occurs(H.events, "rollback"))
        /\ H.trx = "committed" =>
               /\ Occurs(H.events, "commit") /\ Occurs(H.events, "save")
               /\ Position(H.events, "save") < Position(H.events, "commit")
               /\ (H.req.requestId \in StoredRequestIds /\ PostsBody) =>
                      /\ Occurs(H.events, "upload")
                      /\ Position(H.events, "upload") < Position(H.events, "save")
        /\ H.trx = "rolledBack" => Occurs(H.events, "rollback")
        /\ H.res.status # 200 => H.trx = "rolledBack"

\* C17: a callback whose job is found, committed or rolled back, emits
\* exactly one completion record if the job the handler holds at the end is
\* in a terminal state, and none otherwise; the record carries that job and
\* the number of its data links.
C17_CompletionRecord ==
    (Responded /\ JobExists)
        => IF H.job.status \in TerminalStatuses
           THEN /\ Len(H.records) = 1
                /\ H.records[1].job = H.job
                /\ H.records[1].numOutputs =
                       Cardinality({i \in DOMAIN H.job.links : H.job.links[i].rel = "data"})
           ELSE H.records = <<>>

\* C17 witness: a redirect callback whose save fails: it is rolled back, and
\* the job the handler holds is successful, so one record is emitted.
C17_Witness ==
    /\ Responded /\ JobExists /\ H.res.status = 500
    /\ H.err.message = "save failed"
    /\ H.job.status = "successful" /\ Len(H.records) = 1
    /\ H.records[1].numOutputs = 1

(***************************************************************************)
(* Two callbacks racing on one job.                                        *)
(***************************************************************************)
H2 == handler["h2"]

\* Both invocations have answered 200 for the same job, and both loaded the
\* same row: neither saw what the other wrote.
BothCommittedBlind ==
    /\ H.pc = "done" /\ H2.pc = "done"
    /\ H.res.status = 200 /\ H2.res.status = 200
    /\ H.req.requestId = H2.req.requestId
    /\ H.req.requestId \in StoredRequestIds
    /\ H.loaded = H2.loaded

\* The links a callback appended to the row it loaded.
Appended(hs) ==
    {hs.job.links[i] : i \in (Len(hs.loaded.links) + 1)..Len(hs.job.links)}

PersistedLinks(id) == {store[id].links[i] : i \in DOMAIN store[id].links}

AppendedCount(hs) == Len(hs.job.links) - Len(hs.loaded.links)

\* C18: no lock is held between loading a job and saving it, so when two
\* callbacks that loaded the same row both commit, the persisted row is the
\* whole row one of them held: when each appended a link, the persisted job
\* has fewer links than the two appended together.
C18_LostUpdate ==
    BothCommittedBlind
        => /\ store[H.req.requestId] \in {H.job, H2.job}
           /\ (AppendedCount(H) > 0 /\ AppendedCount(H2) > 0)
                  => Len(store[H.req.requestId].links)
                         < Len(H.loaded.links) + AppendedCount(H) + AppendedCount(H2)

\* C18 witness: one callback added the item link, the other the redirect
\* link, both answered 200, and the persisted job has its staging link and
\* one more link only.
C18_Witness ==
    /\ BothCommittedBlind
    /\ Appended(H) # {} /\ Appended(H2) # {}
    /\ Appended(H) \cap Appended(H2) = {}
    /\ Len(store[H.req.requestId].links) = Len(H.loaded.links) + 1
    /\ PersistedLinks(H.req.requestId) \cap Appended(H) = {}

\* C19: in every reachable state the persisted progress of every job is an
\* integer in [0,100].
C19_ProgressRange ==
    \A id \in DOMAIN store :
        /\ ~store[id].progress.nan
        /\ store[id].progress.value \in 0..100

\* C20: forOperation changes operation.outputFormat only when it was unset
\* on entry and a descriptor of the registry is selected: an outputFormat set
\* on entry has the same value on return, and whenever the no-op fallback is
\* returned outputFormat is what it was on entry.
C20_OutputFormatFrame ==
    Returned =>
        /\ entryFormat # Undefined => operation.outputFormat = entryFormat
        /\ IsNoOp => operation.outputFormat = entryFormat
        /\ operation.outputFormat # entryFormat =>
               /\ entryFormat = Undefined /\ ~IsNoOp
               /\ \E i \in DOMAIN configs : result.config = configs[i]

\* C20 witness: patterns are requested, no outputFormat is set, and the
\* no-op fallback is returned after the combination diagnosis, which calls
\* selectFormat once more: outputFormat is still unset.
C20_Witness ==
    /\ Returned /\ IsNoOp /\ noOpMessage.text = CombinationText
    /\ entryFormat = Undefined /\ Requested # <<>>
    /\ operation.outputFormat = Undefined

\* C21: whenever an invocation has emitted a completion record for a job,
\* the persisted status of that job is terminal: a callback that was rolled
\* back and left the persisted job non-terminal emits none.
C21_RecordMeansPersisted ==
    (Responded /\ JobExists /\ H.records # <<>>)
        => Persisted.status \in TerminalStatuses

====
